---- MODULE Spec2Model ----
(***************************************************************************)
(* Advertiser frame decoder (messages/decoders/advertiser.py) and the      *)
(* inventory benchmark loop that consumes it (test/kpi_adv.py); the        *)
(* gateway status observer (api/http/http.py) and the MQTT session         *)
(* (api/mqtt/connectors.py) follow at the end.                             *)
(*                                                                         *)
(* Numbers stored in sample lists are held in HALF units (x is held as     *)
(* 2*x) so that the float raw/2 - 127 of the RSS decoding is exact:        *)
(* equality and zero-ness of held values are those of the Python numbers.  *)
(* An optional Python value is held as a sequence: <<>> is None, <<x>> is  *)
(* the value x.                                                            *)
(***************************************************************************)
EXTENDS Integers, Sequences, FiniteSets, TLC

VARIABLES
    data_payload,     \* decoder: the APDU bytes handed to AdvertiserMessage
    decoded,          \* decoder: <<>> before decode(), <<result>> after it
    now,              \* wall clock, in ticks
    message_counter,  \* AdvertiserMessage.message_counter (class attribute)
    produced,         \* number of AdvertiserMessage objects built so far
    rx_queue,         \* AdvertiserManager.rx_queue
    tx_queue,         \* AdvertiserManager.tx_queue
    start_signal,     \* AdvertiserManager.start_signal
    exit_signal,      \* AdvertiserManager.exit_signal
    pc,               \* position of the manager inside test_inventory
    test_sequence_number, \* AdvertiserManager._test_sequence_number
    empty_counter,    \* local of test_inventory
    inventory,        \* the Inventory object of the manager
    config,           \* constructor arguments of the manager
    ingested,         \* history: frames the loop took in the current run,
                      \*   each with the instant of its add() calls and
                      \*   whether finish() had been called before them;
                      \*   in SpecInventory the calls made on the tracker
    stamped,          \* history: indexes count() gave since the last reset
    gateways_and_sinks, \* SinkAndGatewayStatusObserver.gateways_and_sinks
    status_msg,       \* the status message at the head of gw_status_queue,
                      \*   kept after run() has got and processed it
    handled,          \* history: <<>> while status_msg waits in the queue,
                      \*   else <<the gateway's sinks before it was processed>>
    running,          \* MQTT.running
    subscription,     \* MQTT.subscription
    serve_pc,         \* position of the thread that runs MQTT.serve
    callback,         \* the callback the paho network thread is inside,
                      \*   <<>> when it is inside none
    client,           \* what the MQTT object did to its paho client and logger
    connack,          \* history: the last on_connect call and what it did
    callbacks         \* number of callbacks the network thread has started

ObserverVars == <<gateways_and_sinks, status_msg, handled>>
MqttVars == <<running, subscription, serve_pc, callback, client, connack,
              callbacks>>
ExtVars == <<ObserverVars, MqttVars>>

vars == <<data_payload, decoded, now, message_counter, produced, rx_queue,
          tx_queue, start_signal, exit_signal, pc, test_sequence_number,
          empty_counter, inventory, config, ingested, stamped, ExtVars>>

(***************************************************************************)
(* Bounds                                                                  *)
(***************************************************************************)
MaxRecords == 2       \* full records in a frame built for the decoder
MaxTime == 2          \* the clock stops at this tick
MaxFrames == 2        \* AdvertiserMessage objects built in a behaviour
MaxQueue == 1         \* capacity of rx_queue
MaxCalls == 2         \* add() calls made on one tracker
MaxRuns == 2          \* number_of_runs of the registered task

\* Bytes the decoder is fed: type bytes (RSS, OTAP and other types, with and
\* without the 4-byte address flag), address byte tuples, value bytes and
\* the bytes of a trailing partial chunk.  The value byte of a frame's first
\* record ranges over AllBytes; a frame gets further records, with value
\* bytes of RawBytes, when its first value byte is one of RawBytes too.
TypeBytes == {2, 3, 5, 130, 131, 128}
ReservedBytes == {0}
AddrTuples == {<<1, 0, 0, 0>>, <<0, 1, 0, 0>>, <<1, 0, 0, 1>>}
RawBytes == {0, 5, 253, 254, 255}
AllBytes == 0..255
TrailBytes == {7}
Timestamps == {1000}

(***************************************************************************)
(* Helpers for Python values                                               *)
(***************************************************************************)
None == <<>>
Some(x) == <<x>>
\* Python truth value of an optional number: None and 0 / 0.0 are false.
Truthy(opt) == opt /= None /\ opt[1] /= 0
\* An int held in half units.
Held(x) == 2 * x

Min(a, b) == IF a < b THEN a ELSE b

(***************************************************************************)
(* AdvertiserMessage.decode                                                *)
(***************************************************************************)
message_type_rss == 2
message_type_otap == 3

\* tools.chunker(seq, size): consecutive slices of at most size items.
chunker(seq, size) ==
    [i \in 1..((Len(seq) + size - 1) \div size) |->
        SubSeq(seq, (i - 1) * size + 1, Min(i * size, Len(seq)))]

\* struct.Struct(fmt).unpack(buf) raises struct.error unless the buffer has
\* exactly the size of the format.
UnpackFails(buf, size) == Len(buf) /= size

\* header[0] & 0x7F
AdvType(byte0) == byte0 % 128

\* address_4byte = header[0] >> 7 ; address_len is 4 when it is 1, else 3
AddressLenAlways3(byte0) == 3
AddressLen(byte0) == IF byte0 \div 128 = 1 THEN 4 ELSE 3

\* the chunks the loop skips: len(chunk) < address_len + 1
ShortChunkNever(chunk, address_len) == FALSE
ShortChunk(chunk, address_len) == Len(chunk) < address_len + 1

\* address = values[0] | values[1] << 8 | values[2] << 16 (| values[3] << 24)
AddressAlwaysFour(values, address_len) ==
    values[1] + values[2] * 256 + values[3] * 65536 + values[4] * 16777216
Address(values, address_len) ==
    values[1] + values[2] * 256 + values[3] * 65536
        + (IF address_len = 4 THEN values[4] * 16777216 ELSE 0)

\* rss = values[-1] / 2 - 127 for an RSS frame, otherwise None
RssOf(adv_type, raw) ==
    IF adv_type = message_type_rss THEN Some(raw - 254) ELSE None

\* otap = values[-1] for an OTAP frame, otherwise None
OtapOf(adv_type, raw) ==
    IF adv_type = message_type_rss THEN None
    ELSE IF adv_type = message_type_otap THEN Some(Held(raw))
    ELSE None

\* value = rss for an RSS frame, otap for an OTAP frame, else values[-1]
ValueOf(adv_type, raw) ==
    IF adv_type = message_type_rss THEN raw - 254 ELSE Held(raw)

\* dict(time=None, rss=list(), otap=list(), value=list())
NewEntry == [time |-> None, rss |-> <<>>, otap |-> <<>>, value |-> <<>>]

\* if rss: rss.append / elif otap: otap.append / else: value.append
StoreSampleRawAsOtap(entry, rss, otap, value) ==
    IF Truthy(rss) THEN [entry EXCEPT !.rss = Append(@, rss[1])]
    ELSE [entry EXCEPT !.otap = Append(@, value)]
StoreSample(entry, rss, otap, value) ==
    IF Truthy(rss) THEN [entry EXCEPT !.rss = Append(@, rss[1])]
    ELSE IF Truthy(otap) THEN [entry EXCEPT !.otap = Append(@, otap[1])]
    ELSE [entry EXCEPT !.value = Append(@, value)]

\* One pass of the loop body over a full chunk.
DecodeChunkFresh(adv, chunk, adv_type, address_len, timestamp) ==
    LET address == Address(chunk, address_len)
        raw == chunk[Len(chunk)]
        new == StoreSample([NewEntry EXCEPT !.time = Some(timestamp)],
                           RssOf(adv_type, raw), OtapOf(adv_type, raw),
                           ValueOf(adv_type, raw))
    IN  [a \in DOMAIN adv \cup {address} |->
            IF a = address THEN new ELSE adv[a]]
DecodeChunk(adv, chunk, adv_type, address_len, timestamp) ==
    LET address == Address(chunk, address_len)
        raw == chunk[Len(chunk)]
        rss == RssOf(adv_type, raw)
        otap == OtapOf(adv_type, raw)
        value == ValueOf(adv_type, raw)
        old == IF address \in DOMAIN adv THEN adv[address] ELSE NewEntry
        new == StoreSample([old EXCEPT !.time = Some(timestamp)],
                           rss, otap, value)
    IN  [a \in DOMAIN adv \cup {address} |->
            IF a = address THEN new ELSE adv[a]]

RECURSIVE DecodeChunks(_, _, _, _, _, _)
\* The for loop over tools.chunker(body, s_advertisement.size), from chunk i.
DecodeChunks(adv, chunks, i, adv_type, address_len, timestamp) ==
    IF i > Len(chunks) THEN [err |-> "none", adv |-> adv]
    ELSE IF ShortChunk(chunks[i], address_len)
         THEN DecodeChunks(adv, chunks, i + 1, adv_type, address_len,
                           timestamp)
    ELSE IF UnpackFails(chunks[i], address_len + 1)
         THEN [err |-> "struct.error", adv |-> adv]
    ELSE DecodeChunks(
            DecodeChunk(adv, chunks[i], adv_type, address_len, timestamp),
            chunks, i + 1, adv_type, address_len, timestamp)

EmptyAdv == [a \in {} |-> NewEntry]

\* A decode() that returns quietly on a buffer without a full header.
DecodeLenient(payload, timestamp) ==
    IF Len(payload) < 2
    THEN [err |-> "none", adv_type |-> None, adv_reserved_field |-> None,
          address_len |-> None, adv |-> EmptyAdv]
    ELSE LET adv_type == AdvType(payload[1])
             address_len == AddressLen(payload[1])
             r == DecodeChunks(EmptyAdv,
                               chunker(SubSeq(payload, 3, Len(payload)),
                                       address_len + 1),
                               1, adv_type, address_len, timestamp)
         IN  [err |-> r.err, adv_type |-> Some(adv_type),
              adv_reserved_field |-> Some(payload[2]),
              address_len |-> Some(address_len), adv |-> r.adv]

\* AdvertiserMessage.decode on self.data_payload with self.timestamp.
\* err is "none" when decode() returns and names the exception otherwise.
Decode(payload, timestamp) ==
    LET head == SubSeq(payload, 1, Min(2, Len(payload)))
    IN  IF UnpackFails(head, 2)
        THEN [err |-> "struct.error", adv_type |-> None,
              adv_reserved_field |-> None, address_len |-> None,
              adv |-> EmptyAdv]
        ELSE LET adv_type == AdvType(head[1])
                 address_len == AddressLen(head[1])
                 body == SubSeq(payload, 3, Len(payload))
                 r == DecodeChunks(EmptyAdv, chunker(body, address_len + 1),
                                   1, adv_type, address_len, timestamp)
             IN  [err |-> r.err, adv_type |-> Some(adv_type),
                  adv_reserved_field |-> Some(head[2]),
                  address_len |-> Some(address_len), adv |-> r.adv]

(***************************************************************************)
(* The wire format of section "Measurements" of the decode() docstring,    *)
(* read off a payload independently of decode(): what the frame carries.   *)
(***************************************************************************)
WireType(p) == p[1] % 128
WireWidth(p) == IF p[1] >= 128 THEN 4 ELSE 3
WireFull(p) == (Len(p) - 2) \div (WireWidth(p) + 1)
WireRest(p) == (Len(p) - 2) % (WireWidth(p) + 1)
WireRecord(p, k) ==
    SubSeq(p, 3 + (k - 1) * (WireWidth(p) + 1), 2 + k * (WireWidth(p) + 1))
RECURSIVE LittleEndian(_, _)
LittleEndian(bytes, n) ==
    IF n = 0 THEN 0 ELSE bytes[1] + 256 * LittleEndian(Tail(bytes), n - 1)
WireAddress(p, k) == LittleEndian(WireRecord(p, k), WireWidth(p))
WireRaw(p, k) == WireRecord(p, k)[WireWidth(p) + 1]
WireAddresses(p) == {WireAddress(p, k) : k \in 1..WireFull(p)}
RECURSIVE WireRaws(_, _, _)
\* the value bytes of the first k full records that carry address a, in order
WireRaws(p, a, k) ==
    IF k = 0 THEN <<>>
    ELSE IF WireAddress(p, k) = a
         THEN Append(WireRaws(p, a, k - 1), WireRaw(p, k))
         ELSE WireRaws(p, a, k - 1)

(***************************************************************************)
(* SpecDecode: a frame is put together byte group by byte group and then   *)
(* decoded once.                                                           *)
(***************************************************************************)
\* no gateway status observer and no MQTT session
ObserverIdle ==
    /\ gateways_and_sinks = <<>>
    /\ status_msg = <<>>
    /\ handled = <<>>
MqttIdle ==
    /\ running = FALSE
    /\ subscription = {}
    /\ serve_pc = "off"
    /\ callback = <<>>
    /\ client = <<>>
    /\ connack = <<>>
    /\ callbacks = 0

ManagerIdle ==
    /\ now = 0 /\ message_counter = 0 /\ produced = 0
    /\ rx_queue = <<>> /\ tx_queue = <<>>
    /\ start_signal = FALSE /\ exit_signal = FALSE
    /\ pc = "off" /\ test_sequence_number = 0 /\ empty_counter = 0
    /\ inventory = None /\ config = None
    /\ ingested = <<>> /\ stamped = <<>>
LoopIdle == ObserverIdle /\ MqttIdle /\ ManagerIdle

LoopVars == <<now, message_counter, produced, rx_queue, tx_queue,
              start_signal, exit_signal, pc, test_sequence_number,
              empty_counter, inventory, config, ingested, stamped, ExtVars>>

InitDecode ==
    /\ data_payload = <<>>
    /\ decoded = None
    /\ LoopIdle

PutType ==
    /\ decoded = None /\ Len(data_payload) = 0
    /\ \E b \in TypeBytes : data_payload' = <<b>>
    /\ UNCHANGED <<decoded, LoopVars>>

PutReserved ==
    /\ decoded = None /\ Len(data_payload) = 1
    /\ \E b \in ReservedBytes : data_payload' = Append(data_payload, b)
    /\ UNCHANGED <<decoded, LoopVars>>

PutRecord ==
    /\ decoded = None /\ Len(data_payload) >= 2
    /\ WireRest(data_payload) = 0
    /\ WireFull(data_payload) < MaxRecords
    /\ WireFull(data_payload) > 0 => WireRaw(data_payload, 1) \in RawBytes
    /\ \E t \in AddrTuples,
          v \in (IF WireFull(data_payload) = 0 THEN AllBytes ELSE RawBytes) :
          data_payload' = data_payload
                \o SubSeq(t, 1, WireWidth(data_payload)) \o <<v>>
    /\ UNCHANGED <<decoded, LoopVars>>

PutTrail ==
    /\ decoded = None /\ Len(data_payload) >= 2
    /\ WireRest(data_payload) < WireWidth(data_payload)
    /\ \E b \in TrailBytes : data_payload' = Append(data_payload, b)
    /\ UNCHANGED <<decoded, LoopVars>>

DoDecode ==
    /\ decoded = None
    /\ \E ts \in Timestamps : decoded' = Some(Decode(data_payload, ts))
    /\ UNCHANGED <<data_payload, LoopVars>>

NextDecode == PutType \/ PutReserved \/ PutRecord \/ PutTrail \/ DoDecode

SpecDecode == InitDecode /\ [][NextDecode]_vars

(***************************************************************************)
(* Properties of decode() (SpecDecode)                                     *)
(***************************************************************************)
HasHeader == Len(data_payload) >= 2
Result == decoded[1]
\* the samples a frame carries for address a, as held numbers
RssSamples(p, a) ==
    [i \in 1..Len(WireRaws(p, a, WireFull(p))) |->
        WireRaws(p, a, WireFull(p))[i] - 254]
PlainSamples(p, a) ==
    [i \in 1..Len(WireRaws(p, a, WireFull(p))) |->
        Held(WireRaws(p, a, WireFull(p))[i])]
SampleCount(entry) == Len(entry.rss) + Len(entry.otap) + Len(entry.value)
RECURSIVE SumOver(_, _)
SumOver(f, S) ==
    IF S = {} THEN 0
    ELSE LET a == CHOOSE x \in S : TRUE
         IN  SampleCount(f[a]) + SumOver(f, S \ {a})

\* C1: in a frame of the RSS type every full record is stored as an RSS
\* sample raw/2 - 127 of its address (raw 254 as the sample 0.0) and
\* nothing of it goes to the OTAP or RAW list.
C1_RssFrameStoredAsRss ==
    (decoded /= None /\ HasHeader /\ WireType(data_payload) = message_type_rss)
    => /\ DOMAIN Result.adv = WireAddresses(data_payload)
       /\ \A a \in DOMAIN Result.adv :
            /\ Result.adv[a].rss = RssSamples(data_payload, a)
            /\ Result.adv[a].otap = <<>>
            /\ Result.adv[a].value = <<>>

\* C2: in a frame of the OTAP type every full record is stored as an OTAP
\* sample equal to the raw byte (0 included), with no RSS and no RAW sample.
C2_OtapFrameStoredAsOtap ==
    (decoded /= None /\ HasHeader
        /\ WireType(data_payload) = message_type_otap)
    => /\ DOMAIN Result.adv = WireAddresses(data_payload)
       /\ \A a \in DOMAIN Result.adv :
            /\ Result.adv[a].otap = PlainSamples(data_payload, a)
            /\ Result.adv[a].rss = <<>>
            /\ Result.adv[a].value = <<>>

\* C3: a body of n bytes with address width w gives floor(n / (w+1))
\* samples in all, the n mod (w+1) trailing bytes are dropped, no error.
C3_OneSamplePerFullChunk ==
    (decoded /= None /\ HasHeader)
    => /\ Result.err = "none"
       /\ SumOver(Result.adv, DOMAIN Result.adv) = WireFull(data_payload)
C3_Witness ==
    /\ decoded /= None /\ HasHeader
    /\ WireFull(data_payload) = 2
    /\ WireRest(data_payload) = 2
    /\ Cardinality(DOMAIN Result.adv) = 1

\* C4: decode() of a buffer of 0 or 1 byte fails and stores nothing; a
\* buffer with a header, whatever its trailing bytes, never fails.
C4_ShortBufferFails ==
    decoded /= None
    => /\ (Len(data_payload) < 2
            => Result.err = "struct.error" /\ DOMAIN Result.adv = {})
       /\ (HasHeader => Result.err = "none")
C4_Witness ==
    /\ decoded /= None
    /\ Len(data_payload) = 1
    /\ Result.err = "struct.error"

\* C5: in a frame whose type is neither RSS nor OTAP every full record is
\* stored as a RAW sample equal to the raw byte and the RSS and OTAP lists
\* of every address of the frame stay empty.
C5_OtherFrameStoredAsRaw ==
    (decoded /= None /\ HasHeader
        /\ WireType(data_payload) \notin {message_type_rss, message_type_otap})
    => /\ DOMAIN Result.adv = WireAddresses(data_payload)
       /\ \A a \in DOMAIN Result.adv :
            /\ Result.adv[a].value = PlainSamples(data_payload, a)
            /\ Result.adv[a].rss = <<>>
            /\ Result.adv[a].otap = <<>>
C5_Witness ==
    /\ decoded /= None /\ HasHeader
    /\ WireType(data_payload) = 5
    /\ WireFull(data_payload) = 2
    /\ \E a \in DOMAIN Result.adv : Result.adv[a].value = <<Held(5), Held(0)>>

(***************************************************************************)
(* Inventory (management package): the tracker the manager owns.           *)
(***************************************************************************)
EmptyNodes == [a \in {} |-> 0]

\* Inventory(target_nodes, target_otap_sequence, target_frequency,
\*           start_delay, maximum_duration) built at time t
InventoryNew(cfg, t) ==
    [sequence |-> None,
     target_nodes |-> cfg.target_nodes,
     target_otap_sequence |-> cfg.target_otap,
     target_frequency |-> cfg.target_frequency,
     start |-> t + cfg.delay,
     deadline |-> t + cfg.delay + cfg.duration,
     end |-> None,
     finish_calls |-> 0,
     nodes |-> EmptyNodes]

NewNode == [last_seen |-> None, rss |-> <<>>, otap |-> <<>>, raw |-> <<>>]

\* add(node_address, rss, otap_sequence, timestamp)
InvAddReplace(inv, node_address, rss, otap_sequence, timestamp) ==
    [inv EXCEPT !.nodes =
        [a \in DOMAIN inv.nodes \cup {node_address} |->
            IF a = node_address
            THEN [last_seen |-> timestamp, rss |-> rss,
                  otap |-> otap_sequence, raw |-> <<>>]
            ELSE inv.nodes[a]]]
InvAddDropsOthers(inv, node_address, rss, otap_sequence, timestamp) ==
    [inv EXCEPT !.nodes =
        [a \in {node_address} |->
            IF a \in DOMAIN inv.nodes
            THEN [inv.nodes[a] EXCEPT !.rss = @ \o rss,
                                      !.otap = @ \o otap_sequence,
                                      !.last_seen = timestamp]
            ELSE [last_seen |-> timestamp, rss |-> rss,
                  otap |-> otap_sequence, raw |-> <<>>]]]
InvAddSkipsEmpty(inv, node_address, rss, otap_sequence, timestamp) ==
    IF rss = <<>> /\ otap_sequence = <<>> THEN inv
    ELSE [inv EXCEPT !.nodes =
            [a \in DOMAIN inv.nodes \cup {node_address} |->
                IF a /= node_address THEN inv.nodes[a]
                ELSE IF a \in DOMAIN inv.nodes
                THEN [inv.nodes[a] EXCEPT !.rss = @ \o rss,
                                          !.otap = @ \o otap_sequence,
                                          !.last_seen = timestamp]
                ELSE [last_seen |-> timestamp, rss |-> rss,
                      otap |-> otap_sequence, raw |-> <<>>]]]
InvAdd(inv, node_address, rss, otap_sequence, timestamp) ==
    LET old == IF node_address \in DOMAIN inv.nodes
               THEN inv.nodes[node_address] ELSE NewNode
        new == [old EXCEPT !.rss = @ \o rss,
                           !.otap = @ \o otap_sequence,
                           !.last_seen = timestamp]
    IN  [inv EXCEPT !.nodes =
            [a \in DOMAIN inv.nodes \cup {node_address} |->
                IF a = node_address THEN new ELSE inv.nodes[a]]]

\* wait() returns once now >= start
InvWaitOver(inv, t) == t >= inv.start

InvIsOutOfTimeStrict(inv, t) == t > inv.deadline
InvIsOutOfTime(inv, t) == t >= inv.deadline

InvIsCompleteExact(inv) ==
    /\ inv.target_nodes /= {}
    /\ inv.target_nodes = DOMAIN inv.nodes
InvIsComplete(inv) ==
    /\ inv.target_nodes /= {}
    /\ inv.target_nodes \subseteq DOMAIN inv.nodes

InvHasOtap(inv, a, target) ==
    /\ a \in DOMAIN inv.nodes
    /\ \E i \in 1..Len(inv.nodes[a].otap) : inv.nodes[a].otap[i] = Held(target)

InvIsOtapedObserved(inv) ==
    /\ inv.target_otap_sequence /= None
    /\ \A a \in DOMAIN inv.nodes :
            InvHasOtap(inv, a, inv.target_otap_sequence[1])
InvIsOtaped(inv) ==
    /\ inv.target_otap_sequence /= None
    /\ \A a \in (IF inv.target_nodes /= {} THEN inv.target_nodes
                 ELSE DOMAIN inv.nodes) :
            InvHasOtap(inv, a, inv.target_otap_sequence[1])

\* frequency(): total sample count per node
InvFrequency(inv) ==
    [a \in DOMAIN inv.nodes |->
        Len(inv.nodes[a].rss) + Len(inv.nodes[a].otap)
            + Len(inv.nodes[a].raw)]

InvIsFrequencyReachedAll(inv) ==
    /\ inv.target_frequency /= None
    /\ \A a \in DOMAIN inv.nodes :
            Len(inv.nodes[a].rss) + Len(inv.nodes[a].otap)
                + Len(inv.nodes[a].raw) >= inv.target_frequency[1]
InvIsFrequencyReached(inv) ==
    /\ inv.target_frequency /= None
    /\ \E a \in DOMAIN inv.nodes :
            InvFrequency(inv)[a] >= inv.target_frequency[1]

\* frequency_by_value(): how often each value occurs over all nodes
InvValues(inv) ==
    UNION {{inv.nodes[a].rss[i] : i \in 1..Len(inv.nodes[a].rss)}
            \cup {inv.nodes[a].otap[i] : i \in 1..Len(inv.nodes[a].otap)}
            \cup {inv.nodes[a].raw[i] : i \in 1..Len(inv.nodes[a].raw)}
           : a \in DOMAIN inv.nodes}
CountIn(seq, v) == Cardinality({i \in 1..Len(seq) : seq[i] = v})
RECURSIVE CountOver(_, _, _)
CountOver(nodes, S, v) ==
    IF S = {} THEN 0
    ELSE LET a == CHOOSE x \in S : TRUE
         IN  CountIn(nodes[a].rss, v) + CountIn(nodes[a].otap, v)
                + CountIn(nodes[a].raw, v) + CountOver(nodes, S \ {a}, v)
InvFrequencyByValue(inv) ==
    [v \in InvValues(inv) |-> CountOver(inv.nodes, DOMAIN inv.nodes, v)]

InvDifferenceBothWays(inv) ==
    (inv.target_nodes \ DOMAIN inv.nodes)
        \cup (DOMAIN inv.nodes \ inv.target_nodes)
InvDifference(inv) == inv.target_nodes \ DOMAIN inv.nodes

\* finish(): freezes end on the first call; finish_calls counts the calls
InvFinish(inv, t) ==
    [inv EXCEPT !.end = IF @ = None THEN Some(t) ELSE @,
                !.finish_calls = @ + 1]

(***************************************************************************)
(* AdvertiserManager: the producer side builds AdvertiserMessage objects   *)
(* and queues them, test_inventory consumes them.  The manager has no      *)
(* storage queue.                                                          *)
(***************************************************************************)
\* what the manager is built with
Config(nodes, otap, frequency, delay, duration) ==
    [target_nodes |-> nodes, target_otap |-> otap,
     target_frequency |-> frequency, delay |-> delay, duration |-> duration]
Configs ==
    { Config({}, None, None, 1, 1),
      Config({1, 256}, None, None, 0, 2),
      Config({}, Some(5), None, 0, 1),
      Config({1}, Some(5), None, 1, 1),
      Config({}, None, Some(2), 0, 2) }

\* the frames the transport delivers
Frames ==
    { <<2, 0, 1, 0, 0, 90, 0, 1, 0, 80>>,   \* RSS, nodes 1 and 256
      <<3, 0, 1, 0, 0, 5, 7>>,              \* OTAP 5, node 1, one odd byte
      <<5, 0, 0, 1, 0, 9>> }                \* other type, node 256

timeout == 1

\* AdvertiserMessage.count: the new value of the class counter
CountStuck(counter) == counter
Count(counter) == counter + 1

\* The for loop over message.apdu["adv"].items() calling inventory.add
RECURSIVE AddAllSampledOnly(_, _, _)
AddAllSampledOnly(inv, adv, S) ==
    IF S = {} THEN inv
    ELSE LET a == CHOOSE x \in S : TRUE
             next == IF adv[a].rss = <<>> /\ adv[a].otap = <<>> THEN inv
                     ELSE InvAdd(inv, a, adv[a].rss, adv[a].otap, adv[a].time)
         IN  AddAllSampledOnly(next, adv, S \ {a})
RECURSIVE AddAll(_, _, _)
AddAll(inv, adv, S) ==
    IF S = {} THEN inv
    ELSE LET a == CHOOSE x \in S : TRUE
         IN  AddAll(InvAdd(inv, a, adv[a].rss, adv[a].otap, adv[a].time),
                    adv, S \ {a})

\* while not self.exit_signal.is_set()
LoopConditionAlways(exit) == TRUE
LoopCondition(exit) == ~exit

\* the four checks after the add() loop, each ending the while loop
TerminatesNoDeadline(inv, t) ==
    \/ InvIsComplete(inv)
    \/ InvIsOtaped(inv)
    \/ InvIsFrequencyReached(inv)
TerminatesOnlyDeadline(inv, t) == InvIsOutOfTime(inv, t)
Terminates(inv, t) ==
    \/ InvIsOutOfTime(inv, t)
    \/ InvIsComplete(inv)
    \/ InvIsOtaped(inv)
    \/ InvIsFrequencyReached(inv)

\* the check in the queue.Empty handler that ends the while loop
EmptyEndsAlways(inv, t) == TRUE
EmptyEndsNever(inv, t) == FALSE
EmptyEnds(inv, t) == InvIsOutOfTime(inv, t)

\* the inventory after report(): report() calls finish() for its end
AfterReportNoFinish(inv, t) == inv
AfterReport(inv, t) == InvFinish(inv, t)

\* AdvertiserManager.report
ReportEndNow(inv, sequence, t) ==
    [title |-> sequence,
     start |-> inv.start,
     end |-> Some(t),
     elapsed |-> t - inv.start,
     difference |-> InvDifference(inv),
     inventory_target_nodes |-> inv.target_nodes,
     inventory_target_otap |-> inv.target_otap_sequence,
     inventory_target_frequency |-> inv.target_frequency,
     node_frequency |-> InvFrequency(inv),
     frequency_by_value |-> InvFrequencyByValue(inv),
     observed_total |-> Cardinality(DOMAIN inv.nodes),
     observed |-> inv.nodes]
Report(inv, sequence, t) ==
    [title |-> sequence,
     start |-> inv.start,
     end |-> InvFinish(inv, t).end,
     elapsed |-> InvFinish(inv, t).end[1] - inv.start,
     difference |-> InvDifference(inv),
     inventory_target_nodes |-> inv.target_nodes,
     inventory_target_otap |-> inv.target_otap_sequence,
     inventory_target_frequency |-> inv.target_frequency,
     node_frequency |-> InvFrequency(inv),
     frequency_by_value |-> InvFrequencyByValue(inv),
     observed_total |-> Cardinality(DOMAIN inv.nodes),
     observed |-> inv.nodes]

\* AdvertiserManager.__init__ at time 0, nothing received yet
Init ==
    /\ ObserverIdle /\ MqttIdle
    /\ data_payload = <<>> /\ decoded = None
    /\ now = 0
    /\ message_counter = 0 /\ produced = 0
    /\ rx_queue = <<>> /\ tx_queue = <<>>
    /\ start_signal = FALSE /\ exit_signal = FALSE
    /\ pc = "idle" /\ test_sequence_number = 0 /\ empty_counter = 0
    /\ config \in Configs
    /\ inventory = InventoryNew(config, now)
    /\ ingested = <<>> /\ stamped = <<>>

DecodeVars == <<data_payload, decoded>>

\* time passes
Tick ==
    /\ now < MaxTime
    /\ now' = now + 1
    /\ UNCHANGED <<ExtVars, DecodeVars,
                   message_counter, produced, rx_queue, tx_queue,
                   start_signal, exit_signal, pc, test_sequence_number,
                   empty_counter, inventory, config, ingested, stamped>>

\* the transport builds AdvertiserMessage(payload) -- __init__ runs count()
\* and decode() -- and puts it on rx_queue; early records whether the
\* manager was blocked in wait(), before the start instant, at that moment
ReceiveAdds ==
    /\ produced < MaxFrames
    /\ Len(rx_queue) < MaxQueue
    /\ \E p \in Frames :
        LET index == Count(message_counter)
            m == [payload |-> p, timestamp |-> now, index |-> index,
                  adv |-> Decode(p, now).adv,
                  early |-> (pc = "wait" /\ now < inventory.start)]
        IN  /\ message_counter' = index
            /\ rx_queue' = Append(rx_queue, m)
            /\ stamped' = Append(stamped, index)
            /\ inventory' = AddAll(inventory, m.adv, DOMAIN m.adv)
    /\ produced' = produced + 1
    /\ UNCHANGED <<ExtVars, DecodeVars,
                   now, tx_queue, start_signal, exit_signal, pc,
                   test_sequence_number, empty_counter, config,
                   ingested>>
ReceiveOf(F) ==
    /\ produced < MaxFrames
    /\ Len(rx_queue) < MaxQueue
    /\ \E p \in F :
        LET index == Count(message_counter)
            m == [payload |-> p, timestamp |-> now, index |-> index,
                  adv |-> Decode(p, now).adv,
                  early |-> (pc = "wait" /\ now < inventory.start)]
        IN  /\ message_counter' = index
            /\ rx_queue' = Append(rx_queue, m)
            /\ stamped' = Append(stamped, index)
    /\ produced' = produced + 1
    /\ UNCHANGED <<ExtVars, DecodeVars,
                   now, tx_queue, start_signal, exit_signal, pc,
                   test_sequence_number, empty_counter, inventory, config,
                   ingested>>

Receive == ReceiveOf(Frames)

\* somebody sets the exit signal
SetExit ==
    /\ ~exit_signal
    /\ exit_signal' = TRUE
    /\ UNCHANGED <<ExtVars, DecodeVars,
                   now, message_counter, produced, rx_queue,
                   tx_queue, start_signal, pc, test_sequence_number,
                   empty_counter, inventory, config, ingested, stamped>>

\* the registered task is called: test_inventory(test_sequence_number) up
\* to the call of inventory.wait()
StartRun ==
    /\ \/ pc = "idle" /\ test_sequence_number' = 0
       \/ /\ pc = "done"
          /\ test_sequence_number + 1 < MaxRuns
          /\ test_sequence_number' = test_sequence_number + 1
    /\ inventory' = [inventory EXCEPT !.sequence = Some(test_sequence_number')]
    /\ pc' = "wait"
    /\ ingested' = <<>>
    /\ UNCHANGED <<ExtVars, DecodeVars,
                   now, message_counter, produced, rx_queue,
                   tx_queue, start_signal, exit_signal, empty_counter,
                   config, stamped>>

\* inventory.wait() returns; the code up to the while loop
WaitReturns ==
    /\ pc = "wait"
    /\ InvWaitOver(inventory, now)
    /\ start_signal' = TRUE
    /\ message_counter' = 0
    /\ stamped' = <<>>
    /\ empty_counter' = 0
    /\ pc' = "loop"
    /\ UNCHANGED <<ExtVars, DecodeVars,
                   now, produced, rx_queue, tx_queue, exit_signal,
                   test_sequence_number, inventory, config, ingested>>

\* while not self.exit_signal.is_set(): the signal is set
LoopExit ==
    /\ pc = "loop"
    /\ ~LoopCondition(exit_signal)
    /\ pc' = "finish"
    /\ UNCHANGED <<ExtVars, DecodeVars,
                   now, message_counter, produced, rx_queue,
                   tx_queue, start_signal, exit_signal, test_sequence_number,
                   empty_counter, inventory, config, ingested, stamped>>

\* one iteration in which rx_queue.get times out (queue.Empty)
IterEmpty ==
    /\ pc = "loop"
    /\ LoopCondition(exit_signal)
    /\ rx_queue = <<>>
    /\ now' = Min(now + timeout, MaxTime)
    /\ empty_counter' = IF empty_counter + 1 > 10 THEN 0
                        ELSE empty_counter + 1
    /\ pc' = IF EmptyEnds(inventory, now') THEN "finish" ELSE "loop"
    /\ UNCHANGED <<ExtVars, DecodeVars,
                   message_counter, produced, rx_queue, tx_queue,
                   start_signal, exit_signal, test_sequence_number,
                   inventory, config, ingested, stamped>>

\* one iteration in which rx_queue.get returns a message
IterMessage ==
    /\ pc = "loop"
    /\ LoopCondition(exit_signal)
    /\ rx_queue /= <<>>
    /\ rx_queue' = Tail(rx_queue)
    /\ empty_counter' = 0
    /\ inventory' = AddAll(inventory, Head(rx_queue).adv,
                           DOMAIN Head(rx_queue).adv)
    /\ ingested' = Append(ingested,
                          [frame |-> Head(rx_queue), at |-> now,
                           finished |-> inventory.end /= None])
    /\ pc' = IF Terminates(inventory', now) THEN "finish" ELSE "loop"
    /\ UNCHANGED <<ExtVars, DecodeVars,
                   now, message_counter, produced, tx_queue,
                   start_signal, exit_signal, test_sequence_number, config,
                   stamped>>

\* after the loop: finish(), report(), tx_queue.put(report)
Finish ==
    /\ pc = "finish"
    /\ inventory' = AfterReport(InvFinish(inventory, now), now)
    /\ tx_queue' = Append(tx_queue,
                          Report(InvFinish(inventory, now),
                                 test_sequence_number, now))
    /\ pc' = "done"
    /\ UNCHANGED <<ExtVars, DecodeVars,
                   now, message_counter, produced, rx_queue,
                   start_signal, exit_signal, test_sequence_number,
                   empty_counter, config, ingested, stamped>>

Next ==
    \/ Tick \/ Receive \/ SetExit \/ StartRun \/ WaitReturns
    \/ LoopExit \/ IterEmpty \/ IterMessage \/ Finish

Spec == Init /\ [][Next]_vars

\* test_inventory runs in the manager's own process, which keeps running:
\* an iteration of the while loop that can be taken is taken, and so is the
\* code after the loop
LoopStep == LoopExit \/ IterEmpty \/ IterMessage
\* The fair specification takes its inputs from three of the configurations
\* and one of the frames.
FairConfigs ==
    { Config({1, 256}, None, None, 0, 2),
      Config({}, None, None, 1, 1),
      Config({}, None, Some(2), 0, 2) }
FairFrames == { <<2, 0, 1, 0, 0, 90, 0, 1, 0, 80>> }
InitFair == Init /\ config \in FairConfigs
ReceiveFair == ReceiveOf(FairFrames)
NextFair ==
    \/ Tick \/ ReceiveFair \/ SetExit \/ StartRun \/ WaitReturns
    \/ LoopExit \/ IterEmpty \/ IterMessage \/ Finish
SpecFair ==
    InitFair /\ [][NextFair]_vars /\ WF_vars(LoopStep) /\ WF_vars(Finish)

(***************************************************************************)
(* Properties of the ingestion loop (Spec)                                 *)
(***************************************************************************)
\* number of full records of frame p that carry address a
WireCount(p, a) == Len(WireRaws(p, a, WireFull(p)))
RECURSIVE RecordsIngested(_, _)
\* number of full records for address a in the frames of the log
RecordsIngested(log, a) ==
    IF log = <<>> THEN 0
    ELSE WireCount(Head(log).frame.payload, a)
            + RecordsIngested(Tail(log), a)
IngestedAddresses ==
    UNION {WireAddresses(ingested[i].frame.payload) : i \in 1..Len(ingested)}
TrackerFrequency(a) ==
    IF a \in DOMAIN inventory.nodes THEN InvFrequency(inventory)[a] ELSE 0

\* C6: after the loop has ingested a sequence of frames (first run of the
\* manager), frequency(address) is the number of full records of those
\* frames that carry the address, for RSS, OTAP and other frames alike.
C6_FrequencyCountsRecords ==
    (test_sequence_number = 0 /\ pc \in {"loop", "finish", "done"})
    => \A a \in IngestedAddresses \cup DOMAIN inventory.nodes :
            TrackerFrequency(a) = RecordsIngested(ingested, a)

\* C7: every run of one manager starts with an empty node map: nothing
\* recorded by an earlier run is in the tracker when a run has ingested
\* no frame yet.
C7_RunStartsEmpty ==
    (pc \in {"wait", "loop"} /\ ingested = <<>>)
    => DOMAIN inventory.nodes = {}

\* C8: the frames ingested during a run carry the indexes 1, 2, 3, ... in
\* ingestion order, whatever was decoded before the run started.
C8_IndexesRestartPerRun ==
    \A i \in 1..Len(ingested) : ingested[i].frame.index = i

C10_EarlyFramesDiscarded ==
    \A i \in 1..Len(ingested) : ~ingested[i].frame.early

\* the last frame the loop took in the current run
LastIngested == ingested[Len(ingested)]

\* C11 as stated: add() is never applied before the start instant nor at or
\* after the hard deadline.
C11_AddInsideWindow ==
    \A i \in 1..Len(ingested) :
        /\ ingested[i].at >= inventory.start
        /\ ingested[i].at < inventory.deadline

\* C11: add() is never applied before the start instant; a frame taken
\* from the queue at or after the hard deadline is still added, but it is
\* the last frame of its run: the loop leaves right after it.
C11_OneLateAddAtMost ==
    \A i \in 1..Len(ingested) :
        /\ ingested[i].at >= inventory.start
        /\ ingested[i].at >= inventory.deadline =>
               i = Len(ingested) /\ pc \in {"finish", "done"}
C11_Witness ==
    /\ pc = "finish"
    /\ Len(ingested) = 2
    /\ ingested[1].at < inventory.deadline
    /\ ingested[2].at >= inventory.deadline

\* C12 as stated: each run calls finish() on the tracker exactly once.
C12_FinishOncePerRun ==
    pc = "done" => inventory.finish_calls = test_sequence_number + 1

\* C12: each run calls finish() on the tracker exactly twice, whatever
\* ended the loop: once right after the loop and once more inside report().
C12_FinishTwicePerRun ==
    inventory.finish_calls =
        2 * test_sequence_number + (IF pc = "done" THEN 2 ELSE 0)
C12_Witness ==
    /\ pc = "done"
    /\ test_sequence_number = 1
    /\ inventory.finish_calls = 4

\* the report the last finished run put on tx_queue
LastReport == tx_queue[Len(tx_queue)]

\* C13: the first finish() freezes end at the current time and later calls
\* leave it alone, so the end of the queued report is the end of the
\* tracker after the loop's finish(), and report() called again at any
\* later time gives the same start and end.
C13_FinishIdempotent ==
    /\ [](pc = "done" =>
            /\ LastReport.end /= None
            /\ LastReport.end = inventory.end
            /\ \A t \in now..MaxTime :
                   /\ InvFinish(inventory, t).end = inventory.end
                   /\ Report(inventory, test_sequence_number, t).start
                          = LastReport.start
                   /\ Report(inventory, test_sequence_number, t).end
                          = LastReport.end)
    /\ [][/\ inventory.end /= None => inventory'.end = inventory.end
          /\ inventory.end = None /\ inventory'.end /= None =>
                 inventory'.end = Some(now)]_vars
C13_Witness ==
    /\ pc = "done"
    /\ test_sequence_number = 0
    /\ inventory.end /= None
    /\ inventory.end[1] < now

\* C14: add() is applied to a tracker only after its wait() has returned
\* and never after finish() has been called on it.
C14_AddOnlyWhileActive ==
    \A i \in 1..Len(ingested) :
        /\ start_signal
        /\ ~ingested[i].finished

\* q is what p was, possibly with frames appended by the producer
QueueKept(p, q) == Len(q) >= Len(p) /\ SubSeq(q, 1, Len(p)) = p

\* C15: once the exit signal is set, an iteration that tests it takes no
\* frame: the queued frames stay in rx_queue, nothing is added to the
\* tracker, and the loop goes on to finish() and the report.
C15_ExitStopsIngestion ==
    [][exit_signal =>
          /\ QueueKept(rx_queue, rx_queue')
          /\ ingested' = ingested \/ ingested' = <<>>
          /\ inventory'.nodes = inventory.nodes
          /\ pc = "loop" => pc' \in {"loop", "finish"}
          /\ pc = "finish" /\ pc' /= "finish" =>
                 /\ pc' = "done"
                 /\ inventory'.end /= None
                 /\ Len(tx_queue') = Len(tx_queue) + 1]_vars
C15_Witness ==
    /\ exit_signal
    /\ pc = "done"
    /\ test_sequence_number = 0
    /\ rx_queue /= <<>>
    /\ Len(ingested) = 1
    /\ now < inventory.deadline
    /\ Len(tx_queue) = 1

\* C16: an iteration whose rx_queue.get times out leaves the tracker as it
\* was; it ends the loop when the hard deadline has been reached and goes
\* on to the next iteration otherwise, however many timeouts came before.
C16_EmptyTimeout ==
    [][empty_counter' = empty_counter + 1 =>
          /\ inventory' = inventory
          /\ ingested' = ingested
          /\ rx_queue' = rx_queue
          /\ pc' = "finish" <=> now' >= inventory.deadline
          /\ pc' = "loop" <=> now' < inventory.deadline]_vars
C16_Witness ==
    /\ pc = "finish"
    /\ empty_counter = 2
    /\ ~exit_signal
    /\ inventory.end = None

\* C17: while the loop is still running after a frame of the run, none of
\* is_out_of_time (at the instant of that frame), is_complete, is_otaped
\* and is_frequency_reached holds: the first frame that makes one of them
\* true is the last frame of the run.
C17_StopsAtFirstHit ==
    pc = "loop" /\ ingested /= <<>> =>
        /\ LastIngested.at < inventory.deadline
        /\ ~InvIsComplete(inventory)
        /\ ~InvIsOtaped(inventory)
        /\ ~InvIsFrequencyReached(inventory)
C17_Witness ==
    /\ pc = "finish"
    /\ ~exit_signal
    /\ Len(ingested) = 2
    /\ LastIngested.at < inventory.deadline
    /\ InvIsComplete(inventory)

\* the ingested frames of the run that hold a full record for address a
FramesWith(a) ==
    {i \in 1..Len(ingested) : a \in WireAddresses(ingested[i].frame.payload)}

\* C18: last_seen of an address is the receive timestamp of the latest
\* ingested frame with a full record for it, whatever the frame's kind.
C18_LastSeenIsLatestFrame ==
    \A a \in IngestedAddresses :
        LET last == CHOOSE i \in FramesWith(a) :
                        \A j \in FramesWith(a) : j <= i
        IN  /\ a \in DOMAIN inventory.nodes
            /\ inventory.nodes[a].last_seen
                   = Some(ingested[last].frame.timestamp)
C18_Witness ==
    /\ Len(ingested) = 2
    /\ WireType(ingested[1].frame.payload) = message_type_rss
    /\ WireType(ingested[2].frame.payload) = 5
    /\ ingested[1].frame.timestamp < ingested[2].frame.timestamp
    /\ FramesWith(256) = {1, 2}
    /\ inventory.nodes[256].last_seen = Some(ingested[2].frame.timestamp)

\* C19: the frame type is byte0 without bit 7, the address width is 4 when
\* bit 7 of byte0 is set and 3 otherwise, and every record of the frame is
\* read with that width; a frame with byte0 = 0x80 | 2 is an RSS frame with
\* 4-byte addresses.
C19_TypeAndWidthFromByte0 ==
    (decoded /= None /\ HasHeader) =>
        LET byte0 == data_payload[1]
            bit7 == byte0 \div 128
            width == IF bit7 = 1 THEN 4 ELSE 3
        IN  /\ Result.adv_type = Some(byte0 - 128 * bit7)
            /\ Result.address_len = Some(width)
            /\ WireWidth(data_payload) = width
            /\ DOMAIN Result.adv = WireAddresses(data_payload)
            /\ byte0 = 128 + message_type_rss =>
                   /\ Result.adv_type = Some(message_type_rss)
                   /\ \A a \in DOMAIN Result.adv :
                          /\ Result.adv[a].otap = <<>>
                          /\ Len(Result.adv[a].rss)
                               + Len(Result.adv[a].value)
                                 = WireCount(data_payload, a)
                          /\ (\A k \in 1..WireFull(data_payload) :
                                  WireRaw(data_payload, k) /= 254)
                               => Result.adv[a].rss
                                    = RssSamples(data_payload, a)
C19_Witness ==
    /\ decoded /= None /\ HasHeader
    /\ data_payload[1] = 128 + message_type_rss
    /\ WireFull(data_payload) = 2
    /\ DOMAIN Result.adv = {1, 16777217}
    /\ Len(Result.adv[16777217].rss) = 1

\* the address bytes of the k-th full record of payload p
AddressBytes(p, k) == SubSeq(WireRecord(p, k), 1, WireWidth(p))

\* C20: the address of a record is b0 + b1*2^8 + b2*2^16 (+ b3*2^24 for a
\* 4-byte address); records with different address bytes get different
\* addresses, and the value byte that ends the chunk is not part of it.
C20_AddressLittleEndian ==
    (decoded /= None /\ HasHeader) =>
        LET p == data_payload
            addr(k) ==
                AddressBytes(p, k)[1] + AddressBytes(p, k)[2] * 2^8
                    + AddressBytes(p, k)[3] * 2^16
                    + (IF WireWidth(p) = 4
                       THEN AddressBytes(p, k)[4] * 2^24 ELSE 0)
        IN  /\ \A k \in 1..WireFull(p) :
                   /\ addr(k) \in DOMAIN Result.adv
                   /\ \A i \in 1..WireWidth(p) :
                          (addr(k) \div 2^(8 * (i - 1))) % 2^8
                              = AddressBytes(p, k)[i]
            /\ \A a \in DOMAIN Result.adv :
                   \E k \in 1..WireFull(p) : a = addr(k)
            /\ \A j, k \in 1..WireFull(p) :
                   AddressBytes(p, j) /= AddressBytes(p, k)
                       => addr(j) /= addr(k)
            /\ \A j, k \in 1..WireFull(p) :
                   AddressBytes(p, j) = AddressBytes(p, k)
                       => addr(j) = addr(k)
C20_Witness ==
    /\ decoded /= None /\ HasHeader
    /\ WireWidth(data_payload) = 3
    /\ WireFull(data_payload) = 2
    /\ AddressBytes(data_payload, 1) = <<1, 0, 0>>
    /\ AddressBytes(data_payload, 2) = <<0, 1, 0>>
    /\ WireRaw(data_payload, 1) = 255
    /\ WireRaw(data_payload, 2) = 5
    /\ DOMAIN Result.adv = {1, 256}

\* the samples of a sequence that Python takes as true / as false
IsNonZero(x) == x /= 0
IsZero(x) == x = 0

\* C21: k full records of one frame with the same address leave k samples
\* in the one entry of that address; each list holds its samples in record
\* order and no record is lost to a later one.  (A sample that is 0 sits
\* in the value list, the others in the list of the frame's kind.)
C21_SameAddressAppends ==
    (decoded /= None /\ HasHeader) =>
        \A a \in WireAddresses(data_payload) :
            LET p == data_payload
                S == IF WireType(p) = message_type_rss
                     THEN RssSamples(p, a) ELSE PlainSamples(p, a)
                e == Result.adv[a]
            IN  /\ a \in DOMAIN Result.adv
                /\ SampleCount(e) = WireCount(p, a)
                /\ WireType(p) = message_type_rss =>
                       /\ e.rss = SelectSeq(S, IsNonZero)
                       /\ e.value = SelectSeq(S, IsZero)
                /\ WireType(p) = message_type_otap =>
                       /\ e.otap = SelectSeq(S, IsNonZero)
                       /\ e.value = SelectSeq(S, IsZero)
                /\ WireType(p) \notin {message_type_rss, message_type_otap}
                       => e.value = S
C21_Witness ==
    /\ decoded /= None /\ HasHeader
    /\ WireType(data_payload) = message_type_rss
    /\ WireFull(data_payload) = 2
    /\ WireCount(data_payload, 256) = 2
    /\ WireRaw(data_payload, 1) = 253
    /\ WireRaw(data_payload, 2) = 5
    /\ Result.adv[256].rss = <<253 - 254, 5 - 254>>

(***************************************************************************)
(* SpecInventory: one Inventory is built at some instant and then driven   *)
(* by add() calls with arbitrary arguments, the clock and finish().        *)
(* ingested is the log of the calls.                                       *)
(***************************************************************************)
\* the arguments add() is called with: addresses, rss and otap lists
AddAddresses == {1, 256}
AddSamples ==
    { [rss |-> <<>>, otap |-> <<>>],
      [rss |-> <<Held(1)>>, otap |-> <<>>],
      [rss |-> <<Held(2)>>, otap |-> <<>>],
      [rss |-> <<Held(1), Held(2)>>, otap |-> <<>>],
      [rss |-> <<>>, otap |-> <<Held(5)>>],
      [rss |-> <<>>, otap |-> <<Held(4)>>] }

Call(op, at, address, rss, otap) ==
    [op |-> op, at |-> at, address |-> address, rss |-> rss, otap |-> otap]

\* the arguments an Inventory is built with; an argument that is not given
\* is a field the record lacks (the last two lack a mandatory one)
InventoryConfigs ==
    Configs \cup
    { [target_nodes |-> {}, target_otap |-> None, target_frequency |-> None,
       duration |-> 1],
      [target_nodes |-> {1}, target_otap |-> None, target_frequency |-> None,
       delay |-> 0] }
Mandatory == {"delay", "duration"}

\* Inventory(...): the tracker built, or the error raised instead
InvConstructDeferred(cfg, t) ==
    [error |-> "",
     inventory |->
        InventoryNew([k \in DOMAIN cfg \cup Mandatory |->
                         IF k \in DOMAIN cfg THEN cfg[k] ELSE 0], t)]
InvConstruct(cfg, t) ==
    IF Mandatory \subseteq DOMAIN cfg
    THEN [error |-> "", inventory |-> InventoryNew(cfg, t)]
    ELSE [error |-> "ConfigurationError", inventory |-> None]

InitInventory ==
    /\ ObserverIdle /\ MqttIdle
    /\ data_payload = <<>> /\ decoded = None
    /\ now = 0 /\ message_counter = 0 /\ produced = 0
    /\ rx_queue = <<>> /\ tx_queue = <<>>
    /\ start_signal = FALSE /\ exit_signal = FALSE
    /\ pc = "off" /\ test_sequence_number = 0 /\ empty_counter = 0
    /\ config \in InventoryConfigs
    /\ inventory = None
    /\ ingested = <<>> /\ stamped = <<>>

InventoryRest == <<data_payload, decoded, message_counter, produced, rx_queue,
                   tx_queue, start_signal, exit_signal, pc,
                   test_sequence_number, empty_counter, config, stamped,
                   ExtVars>>

\* Inventory(...) is built
CallNew ==
    /\ inventory = None
    /\ ingested = <<>>
    /\ LET built == InvConstruct(config, now)
       IN  /\ inventory' = built.inventory
           /\ ingested' = <<Call(IF built.error = "" THEN "new"
                                 ELSE built.error, now, 0, <<>>, <<>>)>>
    /\ UNCHANGED <<now, InventoryRest>>

\* inventory.add(...)
CallAdd ==
    /\ inventory /= None
    /\ inventory.end = None
    /\ Len(ingested) < 1 + MaxCalls
    /\ \E a \in AddAddresses, x \in AddSamples :
          /\ inventory' = InvAdd(inventory, a, x.rss, x.otap, Some(now))
          /\ ingested' = Append(ingested, Call("add", now, a, x.rss, x.otap))
    /\ UNCHANGED <<now, InventoryRest>>

\* inventory.finish()
CallFinish ==
    /\ inventory /= None
    /\ inventory.finish_calls < 2
    /\ inventory' = InvFinish(inventory, now)
    /\ UNCHANGED <<now, ingested, InventoryRest>>

NextInventory == Tick \/ CallNew \/ CallAdd \/ CallFinish

SpecInventory == InitInventory /\ [][NextInventory]_vars

(***************************************************************************)
(* Properties of the Inventory (SpecInventory), stated over the call log   *)
(***************************************************************************)
\* the add() calls of the log, and the addresses they named
AddIndexes == {i \in 1..Len(ingested) : ingested[i].op = "add"}
Observed == {ingested[i].address : i \in AddIndexes}
RECURSIVE SamplesPassed(_, _)
\* number of samples the first n calls of the log passed for address a
SamplesPassed(a, n) ==
    IF n = 0 THEN 0
    ELSE SamplesPassed(a, n - 1)
            + (IF ingested[n].op = "add" /\ ingested[n].address = a
               THEN Len(ingested[n].rss) + Len(ingested[n].otap) ELSE 0)
IsPrefixOf(p, q) == Len(p) <= Len(q) /\ SubSeq(q, 1, Len(p)) = p
LastCall == ingested[Len(ingested)]

\* C22: is_complete() holds exactly when the target set is not empty and
\* every target address was named by some add() call, whatever else was
\* added and in whatever order; once it holds it keeps holding.
C22_IsComplete ==
    /\ [](inventory /= None =>
            (InvIsComplete(inventory) <=>
                /\ config.target_nodes /= {}
                /\ config.target_nodes \subseteq Observed))
    /\ [][inventory /= None /\ InvIsComplete(inventory)
            => InvIsComplete(inventory')]_vars
C22_Witness ==
    /\ inventory /= None
    /\ config.target_nodes = {1}
    /\ Len(ingested) = 3
    /\ ingested[2].address = 256
    /\ ingested[3].address = 1
    /\ InvIsComplete(inventory)

\* C23: frequency() of an address is the number of samples that all the
\* add() calls for it passed, rss and otap together.
C23_AddAppends ==
    inventory /= None =>
        /\ DOMAIN InvFrequency(inventory) = Observed
        /\ \A a \in Observed :
               InvFrequency(inventory)[a] = SamplesPassed(a, Len(ingested))
C23_Witness ==
    /\ inventory /= None
    /\ Len(ingested) = 3
    /\ ingested[2].address = 1 /\ ingested[2].rss = <<Held(1)>>
    /\ ingested[3].address = 1 /\ ingested[3].rss = <<Held(2)>>
    /\ InvFrequency(inventory)[1] = 2

\* C24: no step removes an address from nodes, and every sample list
\* after a step starts with what it held before.
C24_MapOnlyGrows ==
    [][inventory /= None =>
          \A a \in DOMAIN inventory.nodes :
              /\ a \in DOMAIN inventory'.nodes
              /\ IsPrefixOf(inventory.nodes[a].rss, inventory'.nodes[a].rss)
              /\ IsPrefixOf(inventory.nodes[a].otap,
                            inventory'.nodes[a].otap)
              /\ IsPrefixOf(inventory.nodes[a].raw,
                            inventory'.nodes[a].raw)]_vars
C24_Witness ==
    /\ inventory /= None
    /\ Len(ingested) = 3
    /\ DOMAIN inventory.nodes = {1, 256}
    /\ inventory.nodes[1].rss = <<Held(1), Held(2)>>
    /\ inventory.nodes[256].otap = <<Held(5)>>

\* C25: an add() with empty rss and otap lists creates the node if it is
\* not there, changes no sample list, sets last_seen to its timestamp, and
\* makes the address count as observed for is_complete(), difference()
\* and the size of nodes.
C25_AddEmpty ==
    [][(/\ inventory /= None
        /\ Len(ingested') = Len(ingested) + 1
        /\ ingested'[Len(ingested')].rss = <<>>
        /\ ingested'[Len(ingested')].otap = <<>>)
       => LET a == ingested'[Len(ingested')].address
              before == IF a \in DOMAIN inventory.nodes
                        THEN inventory.nodes[a] ELSE NewNode
          IN  /\ DOMAIN inventory'.nodes = DOMAIN inventory.nodes \cup {a}
              /\ inventory'.nodes[a] =
                     [before EXCEPT !.last_seen =
                                        Some(ingested'[Len(ingested')].at)]
              /\ \A b \in DOMAIN inventory.nodes \ {a} :
                     inventory'.nodes[b] = inventory.nodes[b]
              /\ a \notin InvDifference(inventory')
              /\ (/\ config.target_nodes /= {}
                  /\ config.target_nodes \subseteq Observed \cup {a})
                    => InvIsComplete(inventory')]_vars
C25_Witness ==
    /\ inventory /= None
    /\ config.target_nodes = {1, 256}
    /\ Len(ingested) = 3
    /\ ingested[2].address = 1
    /\ LastCall.address = 256
    /\ LastCall.rss = <<>> /\ LastCall.otap = <<>>
    /\ inventory.nodes[256] = [NewNode EXCEPT !.last_seen = Some(LastCall.at)]
    /\ InvIsComplete(inventory)

\* C26: is_out_of_time() holds exactly from the instant
\* construction time + start delay + maximum duration on.
C26_OutOfTime ==
    inventory /= None =>
        LET hard_deadline == ingested[1].at + config.delay + config.duration
        IN  /\ InvIsOutOfTime(inventory, now) <=> now >= hard_deadline
            /\ now = hard_deadline - 1 => ~InvIsOutOfTime(inventory, now)
            /\ now = hard_deadline => InvIsOutOfTime(inventory, now)
C26_Witness ==
    /\ inventory /= None
    /\ ingested[1].at = 1
    /\ now = ingested[1].at + config.delay + config.duration
    /\ InvIsOutOfTime(inventory, now)

\* the add() calls of the log that passed OTAP sample v for address a
OtapCalls(a, v) ==
    {i \in AddIndexes :
        /\ ingested[i].address = a
        /\ \E k \in 1..Len(ingested[i].otap) : ingested[i].otap[k] = v}

\* C27: is_otaped() holds exactly when an OTAP target is configured and
\* every node in scope -- the target nodes if there are any, else the
\* observed nodes -- was given an OTAP sample equal to the target.
C27_IsOtaped ==
    inventory /= None =>
        LET scope == IF config.target_nodes /= {} THEN config.target_nodes
                     ELSE Observed
        IN  /\ config.target_otap = None => ~InvIsOtaped(inventory)
            /\ config.target_otap /= None =>
                   (InvIsOtaped(inventory) <=>
                       \A a \in scope :
                           OtapCalls(a, Held(config.target_otap[1])) /= {})
C27_Witness ==
    /\ inventory /= None
    /\ config.target_nodes = {1}
    /\ Observed = {1, 256}
    /\ OtapCalls(256, Held(5)) = {}
    /\ InvIsOtaped(inventory)

\* C28: is_frequency_reached() holds exactly when a frequency target is
\* configured and some observed node was given at least that many samples.
C28_FrequencyReached ==
    inventory /= None =>
        (InvIsFrequencyReached(inventory) <=>
            /\ config.target_frequency /= None
            /\ \E a \in Observed :
                   SamplesPassed(a, Len(ingested))
                       >= config.target_frequency[1])
C28_Witness ==
    /\ inventory /= None
    /\ config.target_frequency = Some(2)
    /\ Observed = {1, 256}
    /\ SamplesPassed(1, Len(ingested)) = 2
    /\ SamplesPassed(256, Len(ingested)) = 1
    /\ InvIsFrequencyReached(inventory)

\* C29: difference() is the target addresses no add() call has named, the
\* empty set without targets; with targets, is_complete() holds exactly
\* when difference() is empty.
C29_Difference ==
    inventory /= None =>
        /\ InvDifference(inventory) = config.target_nodes \ Observed
        /\ config.target_nodes = {} => InvDifference(inventory) = {}
        /\ config.target_nodes /= {} =>
               (InvIsComplete(inventory) <=> InvDifference(inventory) = {})
C29_Witness ==
    /\ inventory /= None
    /\ config.target_nodes = {1}
    /\ Observed = {256}
    /\ InvDifference(inventory) = {1}

\* C30: observed_total of a run's report is the number of distinct
\* addresses the run ingested.
C30_ObservedTotal ==
    pc = "done" => LastReport.observed_total = Cardinality(IngestedAddresses)

C33_RunFinishes ==
    /\ (pc = "loop") ~> (pc = "done")
    /\ [][(/\ pc = "loop"
            /\ now >= inventory.deadline
            /\ \/ empty_counter' /= empty_counter
               \/ ingested' /= ingested
               \/ pc' /= pc)
           => pc' = "finish"]_vars
C33_Witness ==
    /\ pc = "done"
    /\ test_sequence_number = 0
    /\ ~exit_signal
    /\ produced = 0
    /\ empty_counter = 2
    /\ Len(tx_queue) = 1

RECURSIVE Replay(_, _)
\* the tracker a fresh Inventory becomes by the add() calls of a log
Replay(inv, log) ==
    IF log = <<>> THEN inv
    ELSE Replay(AddAll(inv, Head(log).frame.adv, DOMAIN Head(log).frame.adv),
                Tail(log))

\* C34: every finished run has put one report on tx_queue, and the nodes
\* of that report are what the frames ingested in the run add up to.
C34_OneReportPerRun ==
    /\ Len(tx_queue) =
           IF pc = "idle" THEN 0
           ELSE test_sequence_number + (IF pc = "done" THEN 1 ELSE 0)
    /\ pc = "done" =>
           /\ LastReport.end /= None
           /\ LastReport.title = test_sequence_number
           /\ LastReport.observed
                  = Replay(InventoryNew(config, 0), ingested).nodes

MaxConfigs == 2

ManagerVars == <<data_payload, decoded, now, message_counter, produced,
                 rx_queue, tx_queue, start_signal, exit_signal, pc,
                 test_sequence_number, empty_counter, inventory, config,
                 ingested, stamped>>

\* d[k] = v
Put(d, k, v) == [x \in DOMAIN d \cup {k} |-> IF x = k THEN v ELSE d[x]]

Gateways == {"gw1", "gw2"}
SinkIds == {"sink0", "sink1"}
MandatoryFields ==
    {"started", "app_config_seq", "app_config_diag", "app_config_data",
     "node_address"}

\* entries of status_msg["configs"]: with every mandatory field, with some
\* of them, and without a sink_id
CompleteConfig(id, v) ==
    [sink_id |-> id, started |-> TRUE, app_config_seq |-> v,
     app_config_diag |-> v, app_config_data |-> v, node_address |-> v]
PartialConfig(id) == [sink_id |-> id, started |-> TRUE, app_config_seq |-> 3]
StatusConfigs ==
    {CompleteConfig(id, v) : id \in SinkIds, v \in {1, 2}}
    \cup {PartialConfig(id) : id \in SinkIds}
    \cup {[started |-> TRUE, app_config_seq |-> 1, app_config_diag |-> 1,
           app_config_data |-> 1, node_address |-> 1]}

\* check_and_refresh_sink(sink)
check_and_refresh_sinkAlways(sink) == Put(sink, "present", TRUE)
check_and_refresh_sink(sink) == Put(sink, "present", "started" \in DOMAIN sink)

\* the first for loop of run(): every sink of the gateway is marked absent
MarkAbsent(sinks) == [id \in DOMAIN sinks |-> Put(sinks[id], "present", FALSE)]

\* the body of the loop over status_msg["configs"], on the gateway's sinks
HandleConfig(sinks, cfg) ==
    IF "sink_id" \notin DOMAIN cfg THEN sinks
    ELSE LET id == cfg.sink_id
             known == IF id \in DOMAIN sinks THEN sinks
                      ELSE Put(sinks, id, <<>>)
             sink == known[id]
         IN  IF MandatoryFields \subseteq DOMAIN cfg
             THEN Put(known, id,
                      [k \in DOMAIN sink \cup MandatoryFields \cup {"present"}
                          |-> IF k \in MandatoryFields THEN cfg[k]
                              ELSE IF k = "present" THEN TRUE
                              ELSE sink[k]])
             ELSE Put(known, id, check_and_refresh_sink(sink))

RECURSIVE HandleConfigs(_, _)
HandleConfigs(sinks, configs) ==
    IF configs = <<>> THEN sinks
    ELSE HandleConfigs(HandleConfig(sinks, Head(configs)), Tail(configs))

\* remove_inactive_sinks(status_msg), on the gateway's sinks
remove_inactive_sinks(sinks) ==
    [id \in {i \in DOMAIN sinks : sinks[i].present} |-> sinks[id]]

\* one iteration of the while loop of run() that got the message msg
RunOnce(gs, msg) ==
    LET known == IF msg.gw_id \in DOMAIN gs THEN gs
                 ELSE Put(gs, msg.gw_id, <<>>)
    IN  Put(known, msg.gw_id,
            remove_inactive_sinks(
                HandleConfigs(MarkAbsent(known[msg.gw_id]), msg.configs)))

InitHttp ==
    /\ data_payload = <<>> /\ decoded = None
    /\ ManagerIdle /\ MqttIdle /\ ObserverIdle

\* a gateway's status message starts to be written ...
NewStatus ==
    /\ status_msg = None \/ handled /= None
    /\ \E gw \in Gateways : status_msg' = Some([gw_id |-> gw, configs |-> <<>>])
    /\ handled' = None
    /\ UNCHANGED <<gateways_and_sinks, MqttVars, ManagerVars>>

\* ... and gets one more entry in its configs
AddConfig ==
    /\ status_msg /= None /\ handled = None
    /\ Len(status_msg[1].configs) < MaxConfigs
    /\ \E cfg \in StatusConfigs :
          status_msg' =
              Some([status_msg[1] EXCEPT !.configs = Append(@, cfg)])
    /\ UNCHANGED <<gateways_and_sinks, handled, MqttVars, ManagerVars>>

\* run(): gw_status_queue.get returns the message and it is processed
ObserverRun ==
    /\ status_msg /= None /\ handled = None
    /\ ~exit_signal
    /\ gateways_and_sinks' = RunOnce(gateways_and_sinks, status_msg[1])
    /\ handled' =
          Some(IF status_msg[1].gw_id \in DOMAIN gateways_and_sinks
               THEN gateways_and_sinks[status_msg[1].gw_id] ELSE <<>>)
    /\ UNCHANGED <<status_msg, MqttVars, ManagerVars>>

NextHttp == NewStatus \/ AddConfig \/ ObserverRun \/ SetExit

SpecHttp == InitHttp /\ [][NextHttp]_vars

\* the sinks status_msg lists, and those it lists with every mandatory field
Listed == {status_msg[1].configs[i].sink_id :
              i \in {j \in 1..Len(status_msg[1].configs) :
                        "sink_id" \in DOMAIN status_msg[1].configs[j]}}
ListedComplete ==
    {status_msg[1].configs[i].sink_id :
        i \in {j \in 1..Len(status_msg[1].configs) :
                  /\ "sink_id" \in DOMAIN status_msg[1].configs[j]
                  /\ MandatoryFields \subseteq DOMAIN status_msg[1].configs[j]}}

\* C35: once a status message of a gateway is processed, the gateway has
\* exactly the sinks that the message lists with every mandatory field or
\* lists at all and that were known before; each of them is marked present
\* and has every mandatory field.
C35_SinksAfterStatus ==
    handled /= None =>
        LET sinks == gateways_and_sinks[status_msg[1].gw_id]
        IN  /\ DOMAIN sinks
                  = ListedComplete \cup (Listed \cap DOMAIN handled[1])
            /\ \A id \in DOMAIN sinks :
                  /\ sinks[id].present = TRUE
                  /\ MandatoryFields \subseteq DOMAIN sinks[id]
C35_Witness ==
    /\ handled /= None
    /\ DOMAIN handled[1] = {"sink0"}
    /\ status_msg[1].configs
          = <<PartialConfig("sink0"), PartialConfig("sink1")>>
    /\ DOMAIN gateways_and_sinks[status_msg[1].gw_id] = {"sink0"}
    /\ DOMAIN gateways_and_sinks = Gateways

(***************************************************************************)
(* The MQTT session (api/mqtt/connectors.py).  serve() runs in the thread  *)
(* of its caller; after client.loop_start() the paho network thread runs   *)
(* the callbacks on_connect and on_disconnect, one at a time, until        *)
(* client.loop_stop().  The tests of self.running in close() and in        *)
(* on_disconnect are steps of their own, since the two threads share it    *)
(* without a lock.                                                         *)
(***************************************************************************)
MaxCallbacks == 2

\* paho.mqtt.client constants
CONNACK_ACCEPTED == 0
MQTT_ERR_SUCCESS == 0
\* connection results and results of client.subscribe / of a disconnect:
\* the accepted / successful one and another one
ConnackCodes == {CONNACK_ACCEPTED, 5}
ErrorCodes == {MQTT_ERR_SUCCESS, 4}

\* message_subscribe_handlers: the topic filters the session is given
Handlers == {{}, {"a"}, {"a", "b"}}

MqttRest == <<data_payload, decoded, now, message_counter, produced,
              rx_queue, tx_queue, start_signal, pc, test_sequence_number,
              empty_counter, inventory, config, ingested, stamped,
              ObserverVars>>

InitMqtt ==
    /\ data_payload = <<>> /\ decoded = None
    /\ ManagerIdle /\ ObserverIdle
    /\ running = FALSE
    /\ subscription = {}
    /\ serve_pc = "new"
    /\ callback = None
    /\ client = [looping |-> FALSE, subscribed |-> {},
                 close_disconnects |-> 0, clean_disconnects |-> 0,
                 shutdowns |-> 0, unsubscribes |-> 0]
    /\ connack = None
    /\ callbacks = 0

\* serve() up to the while loop, when connect() succeeds
ServeConnects ==
    /\ serve_pc = "new"
    /\ running' = TRUE
    /\ \E handlers \in Handlers : subscription' = subscription \cup handlers
    /\ client' = [client EXCEPT !.looping = TRUE]
    /\ serve_pc' = "loop"
    /\ UNCHANGED <<exit_signal, callback, connack, callbacks, MqttRest>>

\* serve() when connect() raises: the exception goes on to the caller
ServeConnectFails ==
    /\ serve_pc = "new"
    /\ running' = TRUE
    /\ exit_signal' = TRUE
    /\ serve_pc' = "raised"
    /\ UNCHANGED <<subscription, callback, client, connack, callbacks,
                   MqttRest>>

\* the while loop of serve() ends once the exit signal is set
ServeLoopExit ==
    /\ serve_pc = "loop"
    /\ exit_signal
    /\ serve_pc' = "close"
    /\ UNCHANGED <<exit_signal, running, subscription, callback, client,
                   connack, callbacks, MqttRest>>

\* close(): if self.running
CloseGuard(run) == run
CloseTest ==
    /\ serve_pc = "close"
    /\ serve_pc' = IF CloseGuard(running) THEN "close_body" ELSE "loop_stop"
    /\ UNCHANGED <<exit_signal, running, subscription, callback, client,
                   connack, callbacks, MqttRest>>

\* close(): running = False; on_close(); client.disconnect()
CloseBody ==
    /\ serve_pc = "close_body"
    /\ running' = FALSE
    /\ client' = [client EXCEPT !.close_disconnects = @ + 1]
    /\ serve_pc' = "loop_stop"
    /\ UNCHANGED <<exit_signal, subscription, callback, connack, callbacks,
                   MqttRest>>

\* client.loop_stop() joins the network thread; serve() returns
LoopStop ==
    /\ serve_pc = "loop_stop"
    /\ callback = None
    /\ client' = [client EXCEPT !.looping = FALSE]
    /\ serve_pc' = "returned"
    /\ UNCHANGED <<exit_signal, running, subscription, callback, connack,
                   callbacks, MqttRest>>

\* on_connect: the branch taken for the result of one client.subscribe
SubscribeBranch(rc) ==
    IF rc = MQTT_ERR_SUCCESS THEN "info"
    ELSE IF rc = MQTT_ERR_SUCCESS THEN "error"
    ELSE "none"

\* on_connect(client, userdata, flags, rc); results are the results of
\* client.subscribe for the topics of self.subscription
OnConnect ==
    /\ client.looping /\ callback = None
    /\ callbacks < MaxCallbacks
    /\ callbacks' = callbacks + 1
    /\ \E rc \in ConnackCodes, results \in [subscription -> ErrorCodes] :
          LET failed == {t \in subscription : results[t] /= MQTT_ERR_SUCCESS}
              errors == {t \in subscription :
                            SubscribeBranch(results[t]) = "error"}
          IN  IF rc = CONNACK_ACCEPTED
              THEN /\ client' = [client EXCEPT !.subscribed =
                                     @ \cup (subscription \ failed)]
                   /\ connack' = Some([rc |-> rc, failed |-> failed,
                                       errors |-> Cardinality(errors),
                                       disconnected |-> errors /= {}])
              ELSE /\ client' = client
                   /\ connack' = Some([rc |-> rc, failed |-> {},
                                       errors |-> 1, disconnected |-> TRUE])
    /\ UNCHANGED <<exit_signal, running, subscription, serve_pc, callback,
                   MqttRest>>

\* on_disconnect: if rc == mqtt.MQTT_ERR_SUCCESS and self.running
ShutdownGuardAnyState(rc, run) == rc = MQTT_ERR_SUCCESS
ShutdownGuard(rc, run) == rc = MQTT_ERR_SUCCESS /\ run

\* on_disconnect(client, userdata, rc) up to its test
OnDisconnectTest ==
    /\ client.looping /\ callback = None
    /\ callbacks < MaxCallbacks
    /\ callbacks' = callbacks + 1
    /\ \E rc \in ErrorCodes :
          /\ callback' = IF ShutdownGuard(rc, running)
                         THEN Some("on_disconnect") ELSE None
          /\ client' = [client EXCEPT !.clean_disconnects =
                            IF rc = MQTT_ERR_SUCCESS THEN @ + 1 ELSE @]
    /\ UNCHANGED <<exit_signal, running, subscription, serve_pc, connack,
                   MqttRest>>

\* on_disconnect after its test: running = False, the exit signal is set
\* and every topic of self.subscription is unsubscribed
OnDisconnectBody ==
    /\ callback = Some("on_disconnect")
    /\ running' = FALSE
    /\ exit_signal' = TRUE
    /\ client' = [client EXCEPT !.shutdowns = @ + 1,
                                !.unsubscribes = @ + Cardinality(subscription),
                                !.subscribed = {}]
    /\ callback' = None
    /\ UNCHANGED <<subscription, serve_pc, connack, callbacks, MqttRest>>

NextMqtt ==
    \/ ServeConnects \/ ServeConnectFails \/ ServeLoopExit
    \/ CloseTest \/ CloseBody \/ LoopStop
    \/ OnConnect \/ OnDisconnectTest \/ OnDisconnectBody
    \/ SetExit

SpecMqtt == InitMqtt /\ [][NextMqtt]_vars

\* C36: an on_connect call with an accepted connection in which a
\* client.subscribe failed has logged an error and called
\* client.disconnect().
C36_SubscribeFailureDisconnects ==
    (/\ connack /= None
     /\ connack[1].rc = CONNACK_ACCEPTED
     /\ connack[1].failed /= {})
    => /\ connack[1].errors > 0
       /\ connack[1].disconnected

====
